---- MODULE Spec2Model ----
(***************************************************************************)
(* Model of travel_duration_ai_agent.py: the console loop chatbot(), the   *)
(* nearby-place lookup perform_nearby_search(), the routing call           *)
(* get_travel_duration() and the combined chain overall_chain.             *)
(*                                                                         *)
(* Text is a sequence of one-character strings, so that str.strip(),       *)
(* str.lower() and string concatenation are computed as Python computes    *)
(* them.  The language model, the geocoder, the places search, the routing *)
(* backend, the clock and the user are the environment: every completion,  *)
(* response and typed line is chosen from a small set.                     *)
(***************************************************************************)
EXTENDS Integers, Sequences, FiniteSets, TLC

(***************************************************************************)
(* Bounds of the model.                                                    *)
(***************************************************************************)
\* how many fragments the user's answers may append to one typed query
MaxAugment == 2

(***************************************************************************)
(* Text helpers.                                                           *)
(***************************************************************************)
\* Python's None where a text is expected, a local that is not bound
NoText == <<"None">>

\* None where a parsed object is expected
NoRecord == [none |-> TRUE]

\* the empty dict nearby_search returns
EmptyDict == [empty |-> TRUE]

\* now, while it is not bound
NoTime == -1

Whitespace == {" ", "\t"}

\* str.lower() on one character
LowerChar(c) ==
  CASE c = "E" -> "e"
    [] c = "X" -> "x"
    [] c = "I" -> "i"
    [] c = "T" -> "t"
    [] c = "Y" -> "y"
    [] c = "S" -> "s"
    [] c = "N" -> "n"
    [] c = "O" -> "o"
    [] OTHER -> c

\* str.lower()
Lower(s) == [i \in 1..Len(s) |-> LowerChar(s[i])]

RECURSIVE LStrip(_)
LStrip(s) == IF s # <<>> /\ Head(s) \in Whitespace THEN LStrip(Tail(s)) ELSE s

RECURSIVE RStrip(_)
RStrip(s) ==
  IF s # <<>> /\ s[Len(s)] \in Whitespace THEN RStrip(SubSeq(s, 1, Len(s) - 1)) ELSE s

\* str.strip()
Strip(s) == RStrip(LStrip(s))

\* the literals of the source
ExitWord == <<"e", "x", "i", "t">>
YesWord == <<"y", "e", "s">>
TravelModeSep == <<" ", "t", "r", "a", "v", "e", "l", " ", "m", "o", "d", "e", ":", " ">>
AtSep == <<" ", "a", "t", " ">>
Driving == <<"d", "r", "i", "v", "i", "n", "g">>
Walking == <<"w", "a", "l", "k", "i", "n", "g">>
Bicycling == <<"b", "i", "c", "y", "c", "l", "i", "n", "g">>
Transit == <<"t", "r", "a", "n", "s", "i", "t">>

\* the list enumerated on line 168
ModeList == <<Driving, Walking, Bicycling, Transit>>

\* str(n) for one decimal digit
Str(n) == <<CASE n = 0 -> "0" [] n = 1 -> "1" [] n = 2 -> "2" [] n = 3 -> "3" [] n = 4 -> "4" [] OTHER -> "9">>

\* a mapping whose keys start at "0": enumerate() without the + 1
travel_mode_mapping_from_zero ==
  [k \in {Str(i) : i \in 0..(Len(ModeList) - 1)} |->
     ModeList[(CHOOSE i \in 0..(Len(ModeList) - 1) : Str(i) = k) + 1]]

\* {str(i+1): mode for i, mode in enumerate([...])}
travel_mode_mapping ==
  [k \in {Str(i + 1) : i \in 0..(Len(ModeList) - 1)} |->
     ModeList[(CHOOSE i \in 0..(Len(ModeList) - 1) : Str(i + 1) = k) + 1]]

(***************************************************************************)
(* The environment: what the user types and what the services answer.      *)
(***************************************************************************)
\* lines typed at the main prompt
MainLines ==
  { ExitWord,
    <<" ", "E", "x", "I", "T", "\t">>,
    <<"e", "x", "i", "t", "s">>,
    <<"q">>,
    <<" ", "q", " ">> }

\* lines typed at the travel-mode menu
MenuLines ==
  { <<"1">>, <<" ", "2", " ">>, <<"3">>, <<"4">>, <<"5">>, <<"0">>, <<>>, ExitWord, Driving }

\* lines typed at the yes/no confirmation
ConfirmLines ==
  { YesWord, <<"Y", "E", "S">>, <<" ", "y", "e", "s">>, <<"n", "o">>, ExitWord }

\* the completions of the validator that parse as the expected structure
ValidationResults ==
  { [is_valid |-> v, has_mode |-> m, origin |-> od[1], destination |-> od[2]] :
      v \in BOOLEAN, m \in BOOLEAN, od \in {<<<<"o">>, <<"W">>>>, <<NoText, NoText>>} }

\* the completions of the classifier that parse as the expected structure
Classifications ==
  { [classification |-> c, confidence |-> f] : c \in {"general", "specific"}, f \in {0, 1} }

\* a completion that json.loads rejects
Malformed == [malformed |-> TRUE]

\* the validator's completions when overall_chain runs it a second time
ChainValidations ==
  { [is_valid |-> TRUE, has_mode |-> TRUE, origin |-> <<"o">>, destination |-> <<"W">>],
    [is_valid |-> FALSE, has_mode |-> FALSE, origin |-> NoText, destination |-> NoText],
    Malformed }

\* the places the nearby search can return first
Places == { [name |-> <<"W">>, address |-> <<"5">>] }

\* the extractor's completions that parse
ExtractedLocations ==
  { [origin |-> <<"o">>, destination |-> <<"W">>, mode |-> m] : m \in {Driving, Transit} }

\* seconds since 2024-01-01 00:00:00 at which a routing request is issued
Instants == {32400, 46800}

\* seconds the routing backend takes to answer
Delays == {0, 120}

Stages == {"validator", "classifier", "geocode", "nearby", "extractor", "routing", "composer"}

NoCalls == [s \in Stages |-> 0]

\* the routes the routing backend can report first
Routes == { [text |-> <<"1", "m">>, value |-> 60], [text |-> <<"1", "h">>, value |-> 3600] }

\* datetime.strftime('%Y/%m/%d %H:%M %p') of an instant of January 2024
Strftime(t) ==
  [Y |-> 2024, m |-> 1, d |-> 1 + (t \div 86400),
   H |-> (t % 86400) \div 3600, M |-> (t % 3600) \div 60,
   p |-> IF (t % 86400) \div 3600 < 12 THEN "AM" ELSE "PM"]

\* line 151
Farewell == "Goodbye! Have a great day!"

\* line 198
MoreSpecific == "Could you please provide a more specific destination?"

(***************************************************************************)
(* State.                                                                  *)
(***************************************************************************)
VARIABLES
  pc,                                 \* position of the control in the program
  need_new_input,                     \* chatbot: need_new_input
  user_input,                         \* chatbot: user_input (the stored input)
  validation_result,                  \* chatbot: validation_result
  destination_classification_result,  \* chatbot: destination_classification_result
  travel_mode,                        \* chatbot: travel_mode
  response,                           \* chatbot: response
  origin_latlong,                     \* perform_nearby_search: origin_latlong
  nearest,                            \* perform_nearby_search: nearest
  confirm,                            \* perform_nearby_search: confirm
  locations,                          \* overall_chain: result["locations"], parsed
  now,                                \* get_travel_duration: now
  arrival,                            \* the instant the routing response arrives
  directions_result,                  \* get_travel_duration: directions_result
  travel,                             \* the pair get_travel_duration returns
  travel_info,                        \* overall_chain: result["travel_info"]
  chain_validation,                   \* overall_chain: result["validation_result"]
  memory,                             \* the module's ConversationBufferMemory
  typed,                              \* the line input() returned last
  output,                             \* the last text written to the console
  error,                              \* the exception that ended the process
  calls,                              \* stage calls made in this loop iteration
  prompts,                            \* questions put to the user in this iteration
  augments                            \* fragments appended to the typed query

vars == <<pc, need_new_input, user_input, validation_result,
          destination_classification_result, travel_mode, response,
          origin_latlong, nearest, confirm, locations, now, arrival,
          directions_result, travel, travel_info, chain_validation, memory, typed, output, error, calls,
          prompts, augments>>

chatbot_locals == <<validation_result, destination_classification_result, travel_mode, response>>
search_locals == <<origin_latlong, nearest, confirm>>
chain_locals ==
  <<locations, now, arrival, directions_result, travel, travel_info, chain_validation>>

Called(stage) == [calls EXCEPT ![stage] = @ + 1]

\* lines 139-145 and 131: the state when the loop is entered
Init ==
  /\ pc = "top"
  /\ need_new_input = TRUE
  /\ user_input = NoText
  /\ validation_result = NoRecord
  /\ destination_classification_result = NoRecord
  /\ travel_mode = NoText
  /\ response = "None"
  /\ origin_latlong = NoText
  /\ nearest = NoRecord
  /\ confirm = NoText
  /\ locations = NoRecord
  /\ now = NoTime
  /\ arrival = NoTime
  /\ directions_result = <<NoRecord>>
  /\ travel = <<NoText, NoRecord>>
  /\ travel_info = NoRecord
  /\ chain_validation = NoRecord
  /\ memory = <<>>
  /\ typed = NoText
  /\ output = "welcome"
  /\ error = "none"
  /\ calls = NoCalls
  /\ prompts = {}
  /\ augments = 0

\* an uncaught exception leaves chatbot() and ends the process
Raise(e) ==
  /\ pc' = "crashed"
  /\ error' = e

(***************************************************************************)
(* chatbot(): the head of the loop.                                        *)
(***************************************************************************)
\* lines 147-148 with need_new_input true: a line is read and stripped
ReadInput ==
  /\ pc = "top"
  /\ need_new_input
  /\ \E line \in MainLines : typed' = line /\ user_input' = Strip(line)
  /\ pc' = "exit_check"
  /\ output' = "You: "
  /\ calls' = NoCalls
  /\ prompts' = {}
  /\ augments' = 0
  /\ UNCHANGED <<need_new_input, chatbot_locals, search_locals, chain_locals, memory, error>>

\* line 147 with need_new_input false: the stored input is kept
SkipRead ==
  /\ pc = "top"
  /\ ~need_new_input
  /\ pc' = "exit_check"
  /\ calls' = NoCalls
  /\ prompts' = {}
  /\ UNCHANGED <<need_new_input, user_input, chatbot_locals, search_locals, chain_locals,
                 memory, typed, output, error, augments>>

\* a comparison that forgets .lower()
IsExitCaseSensitive(text) == text = ExitWord

\* line 150: user_input.lower() == 'exit'
IsExit(text) == Lower(text) = ExitWord

\* lines 150-152
ExitCheck ==
  /\ pc = "exit_check"
  /\ IF IsExit(user_input)
       THEN pc' = "done" /\ output' = Farewell
       ELSE pc' = "validate" /\ output' = output
  /\ UNCHANGED <<need_new_input, user_input, chatbot_locals, search_locals, chain_locals,
                 memory, typed, error, calls, prompts, augments>>

\* a validator step that turns a completion it cannot parse into a rephrase request
ValidateRecovering ==
  /\ pc = "validate"
  /\ calls' = Called("validator")
  /\ \E completion \in ValidationResults \cup {Malformed} :
       IF completion = Malformed
         THEN /\ pc' = "top"
              /\ error' = error
              /\ output' = "Could you please rephrase your question?"
              /\ prompts' = prompts \cup {"rephrase"}
              /\ UNCHANGED validation_result
         ELSE /\ validation_result' = completion
              /\ pc' = "classify"
              /\ error' = error
              /\ UNCHANGED <<output, prompts>>
  /\ locations' = NoRecord
  /\ travel_info' = NoRecord
  /\ chain_validation' = NoRecord
  /\ UNCHANGED <<need_new_input, user_input, destination_classification_result, travel_mode,
                 response, search_locals, now, arrival, directions_result, travel, memory, typed,
                 augments>>

\* lines 155-156: the validator's completion is parsed with json.loads
Validate ==
  /\ pc = "validate"
  /\ calls' = Called("validator")
  /\ \E completion \in ValidationResults \cup {Malformed} :
       IF completion = Malformed
         THEN Raise("JSONDecodeError") /\ UNCHANGED validation_result
         ELSE validation_result' = completion /\ pc' = "classify" /\ error' = error
  /\ locations' = NoRecord
  /\ travel_info' = NoRecord
  /\ chain_validation' = NoRecord
  /\ UNCHANGED <<need_new_input, user_input, destination_classification_result, travel_mode,
                 response, search_locals, now, arrival, directions_result, travel, memory, typed, output,
                 prompts, augments>>

\* lines 157-158: the classifier runs on validation_result['destination']
Classify ==
  /\ pc = "classify"
  /\ calls' = Called("classifier")
  /\ \E completion \in Classifications \cup {Malformed} :
       IF completion = Malformed
         THEN Raise("JSONDecodeError") /\ UNCHANGED destination_classification_result
         ELSE /\ destination_classification_result' = completion
              /\ pc' = "branch"
              /\ error' = error
  /\ UNCHANGED <<need_new_input, user_input, validation_result, travel_mode, response,
                 search_locals, chain_locals, memory, typed, output, prompts, augments>>

\* the arms with the label tested before has_mode
BranchOfGeneralFirst(v, c) ==
  IF ~v.is_valid THEN "rephrase"
  ELSE IF c.classification = "general" THEN "geocode"
  ELSE IF ~v.has_mode THEN "menu"
  ELSE "chain_validate"

\* the arms with the label trusted only at full confidence
BranchOfConfident(v, c) ==
  IF ~v.is_valid THEN "rephrase"
  ELSE IF ~v.has_mode THEN "menu"
  ELSE IF c.classification = "general" /\ c.confidence = 1 THEN "geocode"
  ELSE "chain_validate"

\* the arms without the test of has_mode
BranchOfNoModeTest(v, c) ==
  IF ~v.is_valid THEN "rephrase"
  ELSE IF c.classification = "general" THEN "geocode"
  ELSE "chain_validate"

\* the arms with the classifier's label tested the wrong way round
BranchOfLabelSwapped(v, c) ==
  IF ~v.is_valid THEN "rephrase"
  ELSE IF ~v.has_mode THEN "menu"
  ELSE IF c.classification = "specific" THEN "geocode"
  ELSE "chain_validate"

\* the arm of the if/elif/else of lines 160-179 that is taken
BranchOf(v, c) ==
  IF ~v.is_valid THEN "rephrase"
  ELSE IF ~v.has_mode THEN "menu"
  ELSE IF c.classification = "general" THEN "geocode"
  ELSE "chain_validate"

\* lines 160-164, 165-167, 176-177 (the call) and 179-181 (the call)
Branch ==
  /\ pc = "branch"
  /\ LET arm == BranchOf(validation_result, destination_classification_result) IN
       CASE arm = "rephrase" ->
              /\ output' = "Could you please rephrase your question?"
              /\ prompts' = prompts \cup {"rephrase"}
              /\ pc' = "top"
              /\ UNCHANGED travel_mode
         [] arm = "menu" ->
              /\ travel_mode' = <<>>
              /\ pc' = "menu"
              /\ UNCHANGED <<output, prompts>>
         [] OTHER ->
              /\ pc' = arm
              /\ UNCHANGED <<travel_mode, output, prompts>>
  /\ UNCHANGED <<need_new_input, user_input, validation_result,
                 destination_classification_result, response, search_locals, chain_locals,
                 memory, typed, error, calls, augments>>

(***************************************************************************)
(* chatbot(): the travel-mode menu.                                        *)
(***************************************************************************)
\* lines 169-172: the body of the while loop, entered while the answer is no key
MenuPrompt ==
  /\ pc = "menu"
  /\ travel_mode \notin DOMAIN travel_mode_mapping
  /\ \E line \in MenuLines :
       /\ Strip(line) \in DOMAIN travel_mode_mapping => augments < MaxAugment
       /\ typed' = line
       /\ travel_mode' = Strip(line)
  /\ output' = "Please enter one of the numbers"
  /\ prompts' = prompts \cup {"menu"}
  /\ UNCHANGED <<pc, need_new_input, user_input, validation_result,
                 destination_classification_result, response, search_locals, chain_locals,
                 memory, error, calls, augments>>

\* lines 173-175, reached when the while condition is false
MenuAppend ==
  /\ pc = "menu"
  /\ travel_mode \in DOMAIN travel_mode_mapping
  /\ user_input' = user_input \o TravelModeSep \o travel_mode_mapping[travel_mode]
  /\ need_new_input' = FALSE
  /\ augments' = augments + 1
  /\ pc' = "top"
  /\ UNCHANGED <<chatbot_locals, search_locals, chain_locals, memory, typed, output, error, calls,
                 prompts>>

(***************************************************************************)
(* perform_nearby_search(origin, destination, original_user_input).        *)
(***************************************************************************)
\* a lookup that geocodes again when the coordinates are empty
AfterGeocodeRetry(latlong) == IF latlong # <<>> THEN "nearby" ELSE "geocode"

\* line 190: if origin_latlong (the empty string is false), else line 203
AfterGeocode(latlong) == IF latlong # <<>> THEN "nearby" ELSE "not_found"

\* line 189 and get_latlong (223-233), then the test of line 190
GetLatlong ==
  /\ pc = "geocode"
  /\ calls' = Called("geocode")
  /\ \E status \in {"OK", "ZERO_RESULTS", "HTTP_ERROR"} :
       CASE status = "OK" ->
              origin_latlong' = <<"c">> /\ pc' = AfterGeocode(<<"c">>) /\ error' = error
         [] status = "ZERO_RESULTS" ->
              origin_latlong' = <<>> /\ pc' = AfterGeocode(<<>>) /\ error' = error
         [] OTHER ->
              Raise("Exception") /\ UNCHANGED origin_latlong
  /\ UNCHANGED <<need_new_input, user_input, chatbot_locals, nearest, confirm, chain_locals,
                 memory, typed, output, prompts, augments>>

\* line 191 and nearby_search (207-221), then the test of line 192
NearbySearch ==
  /\ pc = "nearby"
  /\ calls' = Called("nearby")
  /\ \/ \E place \in Places : nearest' = place /\ pc' = "confirm" /\ error' = error
     \/ nearest' = EmptyDict /\ pc' = "not_found" /\ error' = error
     \/ Raise("Exception") /\ UNCHANGED nearest
  /\ UNCHANGED <<need_new_input, user_input, chatbot_locals, origin_latlong, confirm,
                 chain_locals, memory, typed, output, prompts, augments>>

\* lines 201 and 204: the message names validation_result, a local of chatbot()
\* that perform_nearby_search() cannot see, so building it raises NameError
NotFound ==
  /\ pc = "not_found"
  /\ Raise("NameError")
  /\ UNCHANGED <<need_new_input, user_input, chatbot_locals, search_locals, chain_locals,
                 memory, typed, output, calls, prompts, augments>>

\* a result that drops the text typed so far
PlaceOnly(text, place) == place.name \o AtSep \o place.address

\* line 195: original_user_input + f" {nearest['name']} at {nearest['address']}"
AugmentWithPlace(text, place) == text \o <<" ">> \o place.name \o AtSep \o place.address

\* line 193: the answer is read and not stripped
ConfirmRead ==
  /\ pc = "confirm"
  /\ \E line \in ConfirmLines :
       /\ Lower(line) = YesWord => augments < MaxAugment
       /\ typed' = line
       /\ confirm' = line
  /\ output' = "Did you mean to go to the nearest"
  /\ prompts' = prompts \cup {"confirm"}
  /\ pc' = "confirm_test"
  /\ UNCHANGED <<need_new_input, user_input, chatbot_locals, origin_latlong, nearest,
                 chain_locals, memory, error, calls, augments>>

\* lines 194-199 and the assignment of line 177
ConfirmTest ==
  /\ pc = "confirm_test"
  /\ IF Lower(confirm) = YesWord
       THEN /\ user_input' = AugmentWithPlace(user_input, nearest)
            /\ need_new_input' = FALSE
            /\ augments' = augments + 1
            /\ output' = output
       ELSE /\ user_input' = user_input
            /\ need_new_input' = TRUE
            /\ augments' = augments
            /\ output' = MoreSpecific
  /\ origin_latlong' = NoText
  /\ nearest' = NoRecord
  /\ confirm' = NoText
  /\ pc' = "top"
  /\ UNCHANGED <<chatbot_locals, chain_locals, memory, typed, error, calls, prompts>>

(***************************************************************************)
(* overall_chain, LocationProcessingChain._call and get_travel_duration.   *)
(***************************************************************************)
\* a chain that goes on only when its own validation accepts the input
AfterChainValidationGated(completion) ==
  IF completion # Malformed /\ completion.is_valid THEN "extract" ELSE "present"

\* lines 120-125: SequentialChain runs its chains in order, whatever they return
AfterChainValidation(completion) == "extract"

\* line 121: the validator runs again; its completion is stored, never parsed
ChainValidate ==
  /\ pc = "chain_validate"
  /\ calls' = Called("validator")
  /\ chain_validation' \in ChainValidations
  /\ pc' = AfterChainValidation(chain_validation')
  /\ UNCHANGED <<need_new_input, user_input, chatbot_locals, search_locals, locations, now, arrival,
                 directions_result, travel, travel_info, memory, typed, output, error, prompts,
                 augments>>

\* line 122
Extract ==
  /\ pc = "extract"
  /\ calls' = Called("extractor")
  /\ locations' \in ExtractedLocations \cup {Malformed}
  /\ pc' = "process"
  /\ UNCHANGED <<need_new_input, user_input, chatbot_locals, search_locals, now, arrival,
                 directions_result, travel, travel_info, chain_validation, memory, typed, output,
                 error, prompts, augments>>

\* lines 96-99
ProcessLocations ==
  /\ pc = "process"
  /\ IF locations = Malformed
       THEN Raise("JSONDecodeError")
       ELSE pc' = "directions" /\ error' = error
  /\ UNCHANGED <<need_new_input, user_input, chatbot_locals, search_locals, chain_locals,
                 memory, typed, output, calls, prompts, augments>>

\* an ETA counted from the instant the response is in hand
DepartureAtArrival(issued, arrived) == arrived

\* lines 84 and 91: now is taken before the request and is what the ETA adds to
Departure(issued, arrived) == issued

\* lines 83-89: the request; any exception it raises is caught
Directions ==
  /\ pc = "directions"
  /\ calls' = Called("routing")
  /\ now' \in Instants
  /\ \E delay \in Delays : arrival' = now' + delay
  /\ \/ /\ output' = "Route not found."
        /\ travel' = <<NoText, NoRecord>>
        /\ directions_result' = <<NoRecord>>
        /\ pc' = "travel_info"
     \/ /\ directions_result' \in {<<>>} \cup {<<r>> : r \in Routes}
        /\ pc' = "duration_result"
        /\ UNCHANGED <<output, travel>>
  /\ UNCHANGED <<need_new_input, user_input, chatbot_locals, search_locals, locations,
                 travel_info, chain_validation, memory, typed, error, prompts, augments>>

\* lines 90-91: outside the try; directions_result[0] of an empty list raises
DurationResult ==
  /\ pc = "duration_result"
  /\ IF directions_result = <<>>
       THEN Raise("IndexError") /\ UNCHANGED travel
       ELSE /\ travel' = <<directions_result[1].text,
                           Strftime(Departure(now, arrival) + directions_result[1].value)>>
            /\ pc' = "travel_info"
            /\ error' = error
  /\ UNCHANGED <<need_new_input, user_input, chatbot_locals, search_locals, locations, now, arrival,
                 directions_result, travel_info, chain_validation, memory, typed, output, calls,
                 prompts, augments>>

\* lines 100-101: the pair is unpacked into the travel_info text
TravelInfo ==
  /\ pc = "travel_info"
  /\ travel_info' = [origin |-> locations.origin, destination |-> locations.destination,
                     mode |-> locations.mode, duration |-> travel[1], ETA |-> travel[2]]
  /\ now' = NoTime
  /\ arrival' = NoTime
  /\ directions_result' = <<NoRecord>>
  /\ travel' = <<NoText, NoRecord>>
  /\ pc' = "compose"
  /\ UNCHANGED <<need_new_input, user_input, chatbot_locals, search_locals, locations,
                 chain_validation, memory, typed, output, error, calls, prompts, augments>>

\* lines 124 and 182: the composer's completion becomes response
Compose ==
  /\ pc = "compose"
  /\ calls' = Called("composer")
  /\ response' \in {"duration sentence", "no route was found from origin to destination"}
  /\ pc' = "present"
  /\ UNCHANGED <<need_new_input, user_input, validation_result,
                 destination_classification_result, travel_mode, search_locals, chain_locals,
                 memory, typed, output, error, prompts, augments>>

\* a presentation that leaves need_new_input as it was
PresentKeepsFlag ==
  /\ pc = "present"
  /\ output' = response
  /\ pc' = "top"
  /\ UNCHANGED <<need_new_input, user_input, chatbot_locals, search_locals, chain_locals,
                 memory, typed, error, calls, prompts, augments>>

\* lines 184-185
Present ==
  /\ pc = "present"
  /\ output' = response
  /\ need_new_input' = TRUE
  /\ pc' = "top"
  /\ UNCHANGED <<user_input, chatbot_locals, search_locals, chain_locals, memory, typed, error,
                 calls, prompts, augments>>

Next ==
  \/ ReadInput
  \/ SkipRead
  \/ ExitCheck
  \/ Validate
  \/ Classify
  \/ Branch
  \/ MenuPrompt
  \/ MenuAppend
  \/ GetLatlong
  \/ NearbySearch
  \/ NotFound
  \/ ConfirmRead
  \/ ConfirmTest
  \/ ChainValidate
  \/ Extract
  \/ ProcessLocations
  \/ Directions
  \/ DurationResult
  \/ TravelInfo
  \/ Compose
  \/ Present

Spec == Init /\ [][Next]_vars

(***************************************************************************)
(* Properties.                                                             *)
(***************************************************************************)
\* the positions inside the final branch (overall_chain and lines 182-185)
FinalBranch ==
  {"chain_validate", "extract", "process", "directions", "duration_result", "travel_info",
   "compose", "present"}

\* C1: after the validator has reported the stored input invalid and the
\* rephrase request was emitted, the loop is back at its head with a fresh read
\* required, so a line is read before the validator runs again; this is to
\* hold also when the stored input was an augmented text being reprocessed.
C1_InvalidForcesFreshRead ==
  (pc = "top" /\ "rephrase" \in prompts) => need_new_input

\* C2: "exit" typed at the main prompt, at the travel-mode menu or at the
\* yes/no confirmation ends the loop at once with the farewell, and no stage
\* is called for it.
C2_ExitAtAnyPrompt ==
  [][ ( \/ (pc = "exit_check" /\ need_new_input /\ typed = ExitWord)
        \/ (pc = "menu" /\ "menu" \in prompts /\ typed = ExitWord)
        \/ (pc = "confirm_test" /\ typed = ExitWord) )
      => (pc' = "done" /\ output' = Farewell /\ calls' = calls) ]_vars

\* C3: a valid input without a mode enters the menu; the menu is put again
\* after every answer that is not "1", "2", "3" or "4" (surrounding
\* whitespace removed); an answer k appends " travel mode: " and the word of
\* k (1 driving, 2 walking, 3 bicycling, 4 transit) to the stored input and
\* clears need_new_input; the next iteration reads nothing and hands the
\* augmented text to the validator.
C3_ModeMenu ==
  [][ /\ (pc = "branch" /\ validation_result.is_valid /\ ~validation_result.has_mode)
           => (pc' = "menu" /\ user_input' = user_input)
      /\ (pc = "menu" /\ travel_mode \notin {<<"1">>, <<"2">>, <<"3">>, <<"4">>})
           => /\ pc' = "menu"
              /\ "menu" \in prompts'
              /\ user_input' = user_input
              /\ need_new_input' = need_new_input
      /\ (pc = "menu" /\ travel_mode \in {<<"1">>, <<"2">>, <<"3">>, <<"4">>})
           => /\ user_input' = user_input \o TravelModeSep \o
                    ( CASE travel_mode = <<"1">> -> Driving
                        [] travel_mode = <<"2">> -> Walking
                        [] travel_mode = <<"3">> -> Bicycling
                        [] travel_mode = <<"4">> -> Transit )
              /\ need_new_input' = FALSE
              /\ pc' = "top"
      /\ (pc \in {"top", "exit_check"} /\ ~need_new_input)
           => /\ user_input' = user_input
              /\ typed' = typed
              /\ pc' = (IF pc = "top" THEN "exit_check" ELSE "validate") ]_vars

\* the menu was answered with " 2 " after a first answer that was re-prompted,
\* and the augmented text is about to be validated without a read
C3_Witness ==
  /\ pc = "validate"
  /\ ~need_new_input
  /\ typed = <<" ", "2", " ">>
  /\ user_input = <<"q">> \o TravelModeSep \o Walking

\* C4: when the user is asked to confirm the suggested place, and when the
\* answer has been acted on (input augmented, or a more specific destination
\* requested), exactly one geocode call and exactly one nearby-search call
\* have been made in this iteration.
C4_OneGeocodeOneNearby ==
  /\ (pc \in {"confirm", "confirm_test"} \/ "confirm" \in prompts)
       => (calls["geocode"] = 1 /\ calls["nearby"] = 1)
  /\ pc = "geocode" => (calls["geocode"] = 0 /\ calls["nearby"] = 0)
  /\ pc = "nearby" => (calls["geocode"] = 1 /\ calls["nearby"] = 0)

\* the user declined the suggested place of a general destination
C4_Witness ==
  /\ pc = "top"
  /\ "confirm" \in prompts
  /\ output = MoreSpecific
  /\ destination_classification_result.classification = "general"
  /\ calls["geocode"] = 1
  /\ calls["nearby"] = 1

\* C5: when the user declines the suggested place, when geocoding yields empty
\* coordinates and when the nearby search returns no place, the controller
\* asks for a more specific destination, keeps the stored input, requires a
\* fresh read and goes on with the loop.
C5_DeclineOrFailureContinues ==
  [][ ( \/ pc = "not_found"
        \/ (pc = "confirm_test" /\ Lower(confirm) # YesWord) )
      => /\ pc' = "top"
         /\ output' = MoreSpecific
         /\ user_input' = user_input
         /\ need_new_input' = TRUE ]_vars

\* C6: get_travel_duration returns (None, None) when the request raises and
\* when the response holds zero routes, and no exception leaves it.
C6_NullPairOnFailure ==
  [][ /\ pc \in {"directions", "duration_result"} => pc' # "crashed"
      /\ (pc = "duration_result" /\ directions_result = <<>>)
           => (pc' = "travel_info" /\ travel' = <<NoText, NoRecord>>) ]_vars

\* C7: when the validator reports the input valid with a mode and the
\* classifier labels the destination specific, the final branch is entered in
\* that iteration, and while the control is in the final branch no menu, no
\* confirmation and no rephrase request has been issued in the iteration.
C7_DirectToFinalBranch ==
  [][ /\ ( /\ pc = "branch"
           /\ validation_result.is_valid
           /\ validation_result.has_mode
           /\ destination_classification_result.classification = "specific" )
           => (pc' = "chain_validate" /\ prompts' = {} /\ output' = output)
      /\ pc' \in FinalBranch => prompts' = {} ]_vars

\* a freshly typed query judged valid, with mode and specific, is in the chain
C7_Witness ==
  /\ pc = "extract"
  /\ need_new_input
  /\ augments = 0
  /\ validation_result.is_valid
  /\ validation_result.has_mode
  /\ destination_classification_result.classification = "specific"
  /\ prompts = {}

\* C8: when the user answers yes to the suggested place, the stored input
\* becomes the stored input followed by " <name> at <address>", no line is
\* read at the head of the next iteration and the validator is the next
\* stage to run, on the augmented text.
C8_ConfirmAugmentsAndReprocesses ==
  [][ /\ (pc = "confirm_test" /\ Lower(confirm) = YesWord)
           => /\ user_input' =
                   user_input \o <<" ">> \o nearest.name \o <<" ", "a", "t", " ">>
                              \o nearest.address
              /\ need_new_input' = FALSE
              /\ pc' = "top"
      /\ (pc \in {"top", "exit_check"} /\ ~need_new_input /\ typed \in {YesWord, <<"Y", "E", "S">>})
           => /\ user_input' = user_input
              /\ typed' = typed
              /\ calls' = NoCalls
              /\ pc' = (IF pc = "top" THEN "exit_check" ELSE "validate") ]_vars

\* the query with the confirmed place appended has been validated again
C8_Witness ==
  /\ pc = "classify"
  /\ ~need_new_input
  /\ typed = <<"Y", "E", "S">>
  /\ user_input = <<"q", " ", "W", " ", "a", "t", " ", "5">>
  /\ calls["validator"] = 1

\* C9: the conversation memory never loses an entry, and every turn that
\* presents an answer adds one exchange to it.
C9_MemoryGrowsEveryTurn ==
  [][ /\ Len(memory') >= Len(memory)
      /\ pc = "present" => Len(memory') = Len(memory) + 1 ]_vars

\* C10: the exit command typed at the main prompt, in any letter case and with
\* surrounding whitespace, ends the loop with the farewell; no stage has been
\* called for that input and nothing runs afterwards.
C10_ExitAtMainPrompt ==
  [][ /\ ( /\ pc = "exit_check"
           /\ need_new_input
           /\ typed \in {ExitWord, <<" ", "E", "x", "I", "T", "\t">>} )
           => (pc' = "done" /\ output' = Farewell /\ calls' = NoCalls)
      /\ pc = "done" => FALSE ]_vars

\* the loop has ended on " ExIT<tab>" typed at the main prompt
C10_Witness ==
  /\ pc = "done"
  /\ typed = <<" ", "E", "x", "I", "T", "\t">>
  /\ output = Farewell
  /\ calls = NoCalls

\* C11: the ETA get_travel_duration returns is the instant taken before the
\* request plus the reported seconds, whenever the response arrives, rendered
\* with the fields year/month/day hour:minute AM/PM (the hour is the 24-hour
\* one); a request issued at 2024-01-01 09:00 with 3600 s gives 2024/01/01
\* 10:00 (AM).
C11_EtaFromIssueInstant ==
  [][ (pc = "duration_result" /\ directions_result # <<>>)
      => LET t == now + directions_result[1].value IN
           /\ pc' = "travel_info"
           /\ travel'[1] = directions_result[1].text
           /\ travel'[2] = [Y |-> 2024, m |-> 1, d |-> 1 + (t \div 86400),
                            H |-> (t % 86400) \div 3600, M |-> (t % 3600) \div 60,
                            p |-> IF (t % 86400) < 43200 THEN "AM" ELSE "PM"]
           /\ (now = 32400 /\ directions_result[1].value = 3600)
                => travel'[2] = [Y |-> 2024, m |-> 1, d |-> 1, H |-> 10, M |-> 0, p |-> "AM"] ]_vars

\* the request of 09:00 was answered two minutes later with one hour of travel
C11_Witness ==
  /\ pc = "travel_info"
  /\ now = 32400
  /\ arrival = 32520
  /\ travel[1] = <<"1", "h">>
  /\ travel[2] = [Y |-> 2024, m |-> 1, d |-> 1, H |-> 10, M |-> 0, p |-> "AM"]

\* C12: in the final branch the extractor, the routing call and the composer
\* run in that order and once each; the text presented is the composer's
\* completion, and after the presentation the loop is at its head with
\* need_new_input true, also when the branch was entered with it false.
C12_FinalBranchSequence ==
  [][ /\ pc' \in {"chain_validate", "extract"}
           => (calls'["extractor"] = 0 /\ calls'["routing"] = 0 /\ calls'["composer"] = 0)
      /\ pc' \in {"process", "directions"}
           => (calls'["extractor"] = 1 /\ calls'["routing"] = 0 /\ calls'["composer"] = 0)
      /\ pc' \in {"duration_result", "travel_info", "compose"}
           => (calls'["extractor"] = 1 /\ calls'["routing"] = 1 /\ calls'["composer"] = 0)
      /\ pc' = "present"
           => (calls'["extractor"] = 1 /\ calls'["routing"] = 1 /\ calls'["composer"] = 1)
      /\ pc = "present"
           => /\ output' = response
              /\ need_new_input' = TRUE
              /\ pc' = "top"
              /\ calls' = calls ]_vars

\* an answer was presented for a query that had been augmented, so the final
\* branch was entered with need_new_input false
C12_Witness ==
  /\ pc = "top"
  /\ augments > 0
  /\ need_new_input
  /\ output = response
  /\ calls["extractor"] = 1
  /\ calls["routing"] = 1
  /\ calls["composer"] = 1

\* C13: the extractor and the routing call run only in an iteration whose
\* own validator call, made by the controller on the stored input, returned
\* is_valid true and has_mode true.
C13_ExtractorOnlyAfterValidWithMode ==
  (pc \in FinalBranch \/ calls["extractor"] > 0 \/ calls["routing"] > 0)
    => /\ calls["validator"] >= 1
       /\ validation_result \in ValidationResults
       /\ validation_result.is_valid
       /\ validation_result.has_mode

\* the extractor has run on a query the controller's validator accepted
C13_Witness ==
  /\ pc = "process"
  /\ calls["extractor"] = 1
  /\ validation_result \in ValidationResults
  /\ validation_result.is_valid
  /\ validation_result.has_mode

\* C14: every validator completion that parses is followed by one classifier
\* call, also for an invalid input with no destination; no iteration calls the
\* classifier twice; and the arm taken is determined by is_valid, has_mode and
\* the label alone, whatever the classifier's confidence.
C14_ClassifierAlwaysRunsLabelDecides ==
  [][ /\ (pc = "validate" /\ pc' # "crashed") => (pc' = "classify" /\ calls'["classifier"] = 0)
      /\ pc = "classify" => calls'["classifier"] = 1
      /\ calls'["classifier"] <= 1
      /\ pc = "branch"
           => /\ calls["classifier"] = 1
              /\ pc' = ( IF ~validation_result.is_valid THEN "top"
                         ELSE IF ~validation_result.has_mode THEN "menu"
                         ELSE IF destination_classification_result.classification = "general"
                           THEN "geocode"
                         ELSE "chain_validate" )
              /\ ("rephrase" \in prompts') = ~validation_result.is_valid ]_vars

\* the classifier ran for an invalid input without destination, and its label
\* general at full confidence did not change the arm
C14_Witness ==
  /\ pc = "top"
  /\ "rephrase" \in prompts
  /\ calls["classifier"] = 1
  /\ validation_result.destination = NoText
  /\ destination_classification_result = [classification |-> "general", confidence |-> 1]

\* C15: a validator completion that cannot be parsed ends the turn with the
\* parse error: the validator step either yields a parsed result and hands
\* over to the classifier, or stops the program with no rephrase request and
\* no other stage called, and nothing runs after the stop.
C15_MalformedValidationIsFatal ==
  [][ /\ pc = "validate"
           => \/ (pc' = "classify" /\ validation_result' \in ValidationResults)
              \/ /\ pc' = "crashed"
                 /\ error' = "JSONDecodeError"
                 /\ calls' = [calls EXCEPT !["validator"] = 1]
                 /\ calls = NoCalls
                 /\ prompts' = {}
                 /\ output' = output
                 /\ user_input' = user_input
      /\ pc = "crashed" => FALSE ]_vars

\* the program stopped on the validator's completion, nothing else was called
C15_Witness ==
  /\ pc = "crashed"
  /\ error = "JSONDecodeError"
  /\ calls = [NoCalls EXCEPT !["validator"] = 1]
  /\ prompts = {}

\* C16: the arms are tried in the order invalid, missing mode, general
\* destination, final.  A valid input without mode whose destination is
\* general gets the mode menu; an iteration that shows the menu makes no
\* geocode and no nearby-search call, and an iteration that is in the
\* nearby-place lookup has a validation result with has_mode true.
C16_BranchPriority ==
  [][ /\ (pc = "branch" /\ ~validation_result.is_valid)
           => (pc' = "top" /\ "rephrase" \in prompts' /\ calls' = calls)
      /\ ( /\ pc = "branch"
           /\ validation_result.is_valid
           /\ ~validation_result.has_mode
           /\ destination_classification_result.classification = "general" )
           => pc' = "menu"
      /\ (pc' = "menu" \/ "menu" \in prompts')
           => (calls'["geocode"] = 0 /\ calls'["nearby"] = 0)
      /\ ( \/ pc' \in {"geocode", "nearby", "not_found", "confirm", "confirm_test"}
           \/ calls'["geocode"] > 0
           \/ calls'["nearby"] > 0 )
           => /\ validation_result'.is_valid
              /\ validation_result'.has_mode
              /\ "menu" \notin prompts' ]_vars

\* the menu was answered for a valid input without mode whose destination is
\* general, and no lookup was made
C16_Witness ==
  /\ pc = "top"
  /\ "menu" \in prompts
  /\ ~need_new_input
  /\ validation_result.is_valid
  /\ ~validation_result.has_mode
  /\ destination_classification_result.classification = "general"
  /\ calls["geocode"] = 0
  /\ calls["nearby"] = 0

\* C17: an iteration in the final branch calls the validator twice on the
\* same stored input, the second time as the first step of overall_chain;
\* whatever the second completion is (also invalid or unparsable), the
\* extractor runs next, and the stored input is not changed on the way.
C17_SecondValidationGatesNothing ==
  [][ /\ pc' = "chain_validate" => calls'["validator"] = 1
      /\ pc' \in (FinalBranch \ {"chain_validate"}) => calls'["validator"] = 2
      /\ pc = "chain_validate"
           => /\ pc' = "extract"
              /\ chain_validation' \in ChainValidations
              /\ calls'["extractor"] = 0
      /\ pc = "extract" => (pc' = "process" /\ calls'["extractor"] = 1)
      /\ (pc \in {"validate", "classify"} \cup FinalBranch \/ pc' = "chain_validate")
           => user_input' = user_input ]_vars

\* an answer is about to be presented although the second validation said invalid
C17_Witness ==
  /\ pc = "present"
  /\ chain_validation =
       [is_valid |-> FALSE, has_mode |-> FALSE, origin |-> NoText, destination |-> NoText]
  /\ validation_result.is_valid
  /\ calls["validator"] = 2
  /\ calls["extractor"] = 1
  /\ calls["routing"] = 1
  /\ calls["composer"] = 1

\* C18: the loop comes back to its head with need_new_input false only by a
\* step that acted on an answer of the user (a menu token or a yes) and made
\* the stored input longer; and except when a new line is read, the stored
\* input of before is a prefix of the stored input of after.
C18_ReprocessOnlyAfterAnswer ==
  [][ /\ (pc' = "top" /\ ~need_new_input')
           => /\ pc \in {"menu", "confirm_test"}
              /\ Len(user_input') > Len(user_input)
      /\ ~(pc = "top" /\ need_new_input)
           => /\ Len(user_input') >= Len(user_input)
              /\ SubSeq(user_input', 1, Len(user_input)) = user_input ]_vars

====
